---- MODULE Spec2Model ----
(***************************************************************************)
(* A model of lnsp/txledger: the hash, account, transaction, block and     *)
(* ledger packages.  Byte strings are sequences of 0..255; a u64 is a      *)
(* number below U64, written to hashers and streams as 8 little-endian     *)
(* bytes.  A big.Int is the byte string big.Int.Bytes() returns: its       *)
(* big-endian digits without leading zero bytes.                           *)
(***************************************************************************)
EXTENDS Integers, Sequences, FiniteSets, Bags, TLC

\* ------------------------------------------------------------- bounds
\* Width of the model's u64 in bits (the code's is 64).
WordBits == 11
\* Longest chain the ledger actions build.
MaxBlocks == 2
\* Latest value of the unix clock.
MaxInits == 1

MaxApplies == 3

GenesisComplexity == 16
\* runtime.NumCPU(): the number of mining workers.
NumCPU == 2
\* VarianceChunkSize is 2 << ChunkShift (the code's shift is 16).
ChunkShift == 0
\* Chunks one Find call dispatches before the model stops watching it.
MaxChunks == 2

U64 == 2 ^ WordBits

\* ---------------------------------------------------------- constants
HashSize == 32
AddressSize == 32
KeyPairSize == 64
RewardBase == 32
BlockEpoch == 16
BaseFee == 512
FeeSizeScalar == 32
FeeComplexityScalar == 128
FeeEpoch == 64
TypeCoinbase == 0
TypeAccount == 1
TypeTransfer == 2
VarianceChunkSize == 2 * (2 ^ ChunkShift)

\* -------------------------------------------------------------- bytes
Zeros(n) == [i \in 1..n |-> 0]

\* binary.Write(w, binary.LittleEndian, v) of a uint64.
RECURSIVE LittleEndian(_, _)
LittleEndian(v, n) ==
    IF n = 0 THEN <<>> ELSE <<v % 256>> \o LittleEndian(v \div 256, n - 1)

PutUint64(v) == LittleEndian(v, 8)

\* binary.LittleEndian.Uint64 of 8 bytes, at the model's width.
RECURSIVE Uint64From(_, _)
Uint64From(b, i) ==
    IF i > 8 THEN 0 ELSE (b[i] + 256 * Uint64From(b, i + 1)) % U64

Uint64(b) == Uint64From(b, 1)

\* bytes.Compare(a, b) < 0: lexicographic order on byte strings.
RECURSIVE BytesLess(_, _, _)
BytesLess(a, b, i) ==
    IF i > Len(a) THEN i <= Len(b)
    ELSE IF i > Len(b) THEN FALSE
    ELSE IF a[i] # b[i] THEN a[i] < b[i]
    ELSE BytesLess(a, b, i + 1)

\* big.Int: SetBytes drops the leading zero bytes, Bytes returns the rest.
RECURSIVE FirstNonZero(_, _)
FirstNonZero(b, i) ==
    IF i > Len(b) \/ b[i] # 0 THEN i ELSE FirstNonZero(b, i + 1)

BigInt(b) == SubSeq(b, FirstNonZero(b, 1), Len(b))

\* --------------------------------------------------------------- hash
\* crypto/sha256 is outside the repository.  Its stand-in maps a byte
\* string to 32 bytes through a 16-bit tree digest, so that digests differ
\* in their leading zero bits and a changed input byte changes the digest.
RECURSIVE Absorb(_, _, _)
Absorb(b, lo, hi) ==
    IF lo > hi THEN 7
    ELSE IF lo = hi THEN (b[lo] + 1) * (lo + 130)
    ELSE LET mid == (lo + hi) \div 2
         IN  (Absorb(b, lo, mid) * 131 + Absorb(b, mid + 1, hi) * 31 + hi) % 65521

Sha256(b) ==
    LET h == Absorb(b, 1, Len(b))
    IN  [i \in 1..HashSize |-> ((h \div i) + h * i * i + 29 * (i - 1)) % 256]

\* Hasher.Write collects the input; Hasher.Sum is SHA-256 of its SHA-256.
Sum(written) == Sha256(Sha256(written))

\* bits.LeadingZeros8
LeadingZeros8(x) ==
    IF x = 0 THEN 8
    ELSE IF x < 2 THEN 7
    ELSE IF x < 4 THEN 6
    ELSE IF x < 8 THEN 5
    ELSE IF x < 16 THEN 4
    ELSE IF x < 32 THEN 3
    ELSE IF x < 64 THEN 2
    ELSE IF x < 128 THEN 1
    ELSE 0

\* ------------------------------------------------------------ account
\* A coordinate or scalar of a generated key: 32 non-zero bytes.
Coord(seed) == [j \in 1..32 |-> ((seed * 37 + j * 11) % 255) + 1]

\* ecdsa.GenerateKey: the key pairs the model generates.  X, Y and D are
\* big.Int values; the X of the third key has a leading zero byte, so its
\* big.Int holds 31 bytes.
KeyA == [X |-> Coord(1), Y |-> Coord(2), D |-> Coord(3)]

KeyB == [X |-> Coord(4), Y |-> Coord(5), D |-> Coord(6)]

KeyShort == [X |-> Tail(Coord(7)), Y |-> Coord(8), D |-> Coord(9)]

PrivateKeys == {KeyA, KeyB, KeyShort}

\* The nonces ecdsa.Sign draws from rand.Reader.
Nonces == {1, 2}

\* NewPublic(key) slices key[:32]: it panics on fewer than 32 bytes.
NewPublicPanics(key) == Len(key) < 32

NewPublic(key) ==
    [X |-> BigInt(SubSeq(key, 1, 32)), Y |-> BigInt(SubSeq(key, 33, Len(key)))]

\* Public.PublicKeyBytes and Private.PublicKeyBytes: X.Bytes() then Y.Bytes().
PublicKeyBytes(a) == a.X \o a.Y

\* Public.Address and Private.Address.
Address(a) == Sum(PublicKeyBytes(a))

\* Private.Bytes
PrivateBytes(a) == PublicKeyBytes(a) \o a.D

\* NewPrivateFromBytes(key) slices key[:32], key[32:64] and key[64:]: it
\* panics on fewer than 64 bytes.
NewPrivateFromBytesPanics(key) == Len(key) < 64

NewPrivateFromBytes(key) ==
    [X |-> BigInt(SubSeq(key, 1, 32)), Y |-> BigInt(SubSeq(key, 33, 64)),
     D |-> BigInt(SubSeq(key, 65, Len(key)))]

\* crypto/ecdsa is outside the repository.  Its stand-in: r comes from the
\* nonce alone and s binds the public key, the hash and r; a point that is
\* not the public point of a generated key verifies nothing.
EcdsaR(nonce) == BigInt(IF nonce = 2 THEN <<0>> \o Tail(Coord(20)) ELSE Coord(10 + nonce))

EcdsaS(X, Y, hash, r) == BigInt(Sha256(X \o <<255>> \o Y \o <<255>> \o hash \o r))

EcdsaVerify(pub, hash, r, s) ==
    /\ \E k \in PrivateKeys : k.X = pub.X /\ k.Y = pub.Y
    /\ r # <<>>
    /\ s # <<>>
    /\ s = EcdsaS(pub.X, pub.Y, hash, r)

\* Private.Sign: r.Bytes() then s.Bytes().
Sign(a, hash, nonce) ==
    LET r == EcdsaR(nonce)
    IN  r \o EcdsaS(a.X, a.Y, hash, r)

\* Public.Verify and Private.Verify slice signature[:32].
VerifyPanics(signature) == Len(signature) < 32

AccountVerify(a, hash, signature) ==
    EcdsaVerify([X |-> a.X, Y |-> a.Y], hash,
                BigInt(SubSeq(signature, 1, 32)),
                BigInt(SubSeq(signature, 33, Len(signature))))

\* ------------------------------------------------------- address book
\* The B-tree of AddressTreeItem values, ordered by Less on Address: a set
\* of items, no two with the same address.
Less(item, than) == BytesLess(item.Address, than.Address, 1)

SameKey(a, b) == ~BytesLess(a, b, 1) /\ ~BytesLess(b, a, 1)

Has(tree, address) == \E it \in tree : SameKey(it.Address, address)

Get(tree, address) == CHOOSE it \in tree : SameKey(it.Address, address)

ReplaceOrInsert(tree, item) ==
    {it \in tree : ~SameKey(it.Address, item.Address)} \cup {item}

NewAddressTree == {}

\* -------------------------------------------------------- transaction
\* floor(sqrt(x / epoch)), as uint64(math.Sqrt(float64(x) / epoch)) gives
\* for the small x of the model.
RECURSIVE SqrtFrom(_, _, _)
SqrtFrom(x, epoch, q) ==
    IF (q + 1) * (q + 1) * epoch > x THEN q ELSE SqrtFrom(x, epoch, q + 1)

SqrtOver(x, epoch) == SqrtFrom(x, epoch, 0)

CalculateFee(size, complexity) ==
    (BaseFee + FeeSizeScalar * size
       + FeeComplexityScalar * SqrtOver(complexity, FeeEpoch)) % U64

TxPartialHash(tx) ==
    Sum(PutUint64(tx.Chain) \o PutUint64(tx.Type) \o PutUint64(tx.Amount)
        \o PutUint64(tx.Fee) \o PutUint64(tx.Timestamp)
        \o tx.Sender \o tx.Recipient \o tx.Data)

TxHash(tx) == Sum(TxPartialHash(tx) \o tx.Proof)

\* transaction.New
NewTX ==
    [Chain |-> 0, Type |-> 0, Amount |-> 0, Fee |-> 0, Timestamp |-> 0,
     Sender |-> Zeros(AddressSize), Recipient |-> Zeros(AddressSize),
     Proof |-> Zeros(KeyPairSize), Data |-> <<>>]

Signed(tx, priv, nonce) ==
    [tx EXCEPT !.Proof = Sign(priv, TxPartialHash(tx), nonce)]

NewCoinbase(chain, priv, amount, t, nonce) ==
    Signed([Chain |-> chain, Type |-> TypeCoinbase, Amount |-> amount,
            Fee |-> 0, Timestamp |-> t, Sender |-> Zeros(AddressSize),
            Recipient |-> Address(priv), Proof |-> <<>>,
            Data |-> PublicKeyBytes(priv)], priv, nonce)

NewAccount(chain, priv, t, nonce) ==
    Signed([Chain |-> chain, Type |-> TypeAccount, Amount |-> 0,
            Fee |-> 0, Timestamp |-> t, Sender |-> Address(priv),
            Recipient |-> Zeros(AddressSize), Proof |-> <<>>,
            Data |-> PublicKeyBytes(priv)], priv, nonce)

NewTransfer(chain, amount, fee, from, to, t, nonce) ==
    Signed([Chain |-> chain, Type |-> TypeTransfer, Amount |-> amount,
            Fee |-> fee, Timestamp |-> t, Sender |-> Address(from),
            Recipient |-> Address(to), Proof |-> <<>>,
            Data |-> <<>>], from, nonce)

\* ------------------------------------------------------------- inputs
Chains == {0, 1}

Times == {0, 1}

Complexities == {GenesisComplexity - 1, GenesisComplexity}

\* A transaction whose Data is the properly padded public key of KeyShort.
PaddedAccount(chain, t) ==
    Signed([Chain |-> chain, Type |-> TypeAccount, Amount |-> 0, Fee |-> 0,
            Timestamp |-> t, Sender |-> Address(KeyShort),
            Recipient |-> Zeros(AddressSize), Proof |-> <<>>,
            Data |-> <<0>> \o PublicKeyBytes(KeyShort)], KeyShort, 1)

\* One transaction of a body, built by the constructor of its kind.
Build(p) ==
    IF p.kind = "coinbase" THEN NewCoinbase(p.chain, p.key, p.amount, p.t, p.nonce)
    ELSE IF p.kind = "account" THEN NewAccount(p.chain, p.key, p.t, p.nonce)
    ELSE IF p.kind = "padded" THEN PaddedAccount(p.chain, p.t)
    ELSE IF p.kind = "unknown"
       THEN [NewAccount(p.chain, p.key, p.t, p.nonce) EXCEPT !.Type = TypeTransfer + 1]
    ELSE NewTransfer(p.chain, p.amount, p.fee, p.key, p.to, p.t, p.nonce)

Plan(kind, key, to, amount, fee, nonce) ==
    [kind |-> kind, key |-> key, to |-> to, amount |-> amount, fee |-> fee,
     nonce |-> nonce]

\* The bodies of the blocks handed to Append: the miner's coinbase of the
\* given amount alone or with one more transaction, and the malformed ones.
Plans(amount, fee) ==
    LET cb == Plan("coinbase", KeyA, KeyA, amount, 0, 1)
    IN  { <<>>,
          <<cb>>,
          <<Plan("coinbase", KeyShort, KeyA, amount, 0, 1)>>,
          <<Plan("coinbase", KeyA, KeyA, (amount + 1) % U64, 0, 1)>>,
          <<Plan("account", KeyA, KeyA, 0, 0, 1)>>,
          <<cb, Plan("account", KeyB, KeyA, 0, 0, 1)>>,
          <<cb, Plan("account", KeyB, KeyA, 0, 0, 2)>>,
          <<cb, Plan("padded", KeyShort, KeyA, 0, 0, 1)>>,
          <<cb, Plan("coinbase", KeyB, KeyA, 0, 0, 1)>>,
          <<cb, Plan("unknown", KeyB, KeyA, 0, 0, 1)>>,
          <<cb, Plan("transfer", KeyA, KeyB, 1, 0, 1)>>,
          <<cb, Plan("transfer", KeyA, KeyB, 1, fee, 1)>>,
          <<cb, Plan("transfer", KeyB, KeyA, 1, fee, 1)>> }

Built(plan, chain, t) ==
    [i \in 1..Len(plan) |->
        Build([kind |-> plan[i].kind, key |-> plan[i].key, to |-> plan[i].to,
               amount |-> plan[i].amount, fee |-> plan[i].fee,
               nonce |-> plan[i].nonce, chain |-> chain, t |-> t])]

\* A coinbase that carries no public key.
NoData(body) ==
    IF Len(body) = 1 /\ body[1].Type = TypeCoinbase /\ body[1].Recipient = Address(KeyA)
    THEN {[i \in 1..1 |-> [body[1] EXCEPT !.Data = <<>>]]}
    ELSE {}

Bodies(chain, amount, fee, t) ==
    UNION {{body} \cup NoData(body) :
             body \in {Built(plan, chain, t) : plan \in Plans(amount, fee)}}

\* ------------------------------------------------------------- reward
HashQuality(complexity) == SqrtOver(complexity, BlockEpoch)

RECURSIVE TransferFees(_, _)
TransferFees(transactions, i) ==
    IF i > Len(transactions) THEN 0
    ELSE ((IF transactions[i].Type = TypeTransfer THEN transactions[i].Fee ELSE 0)
            + TransferFees(transactions, i + 1)) % U64

BlockReward(complexity, transactions) ==
    (TransferFees(transactions, 1) + HashQuality(complexity) * RewardBase) % U64

\* ------------------------------------------------------------- tables
\* The complexities of the blocks the model builds.
BlockComplexities == {c + i : c \in Complexities, i \in 0..MaxBlocks}

\* The bodies, built once for every chain, complexity and time of the model.
BodyTable ==
    [c \in Chains, cx \in BlockComplexities, t \in Times |->
        Bodies(c, BlockReward(cx, <<>>), CalculateFee(0, cx), t)] @@ <<>>

\* The transactions of the bodies.
Range(f) == {f[x] : x \in DOMAIN f}

PoolTxs == UNION {Range(body) : body \in UNION Range(BodyTable)}

\* TX.Hash, TX.VerifyProof of a kind that does not read the book, and
\* Address, computed once for the transactions and keys of the bodies.
TxHashTable == [tx \in PoolTxs |-> TxHash(tx)] @@ <<>>

\* table[x] where the table has x, and v elsewhere.
Memo(table, x, v) == IF x \in DOMAIN table THEN table[x] ELSE v

HashOf(tx) == Memo(TxHashTable, tx, TxHash(tx))

AddressTable ==
    [pub \in {NewPublic(tx.Data) : tx \in {t \in PoolTxs : ~NewPublicPanics(t.Data)}}
       |-> Address(pub)] @@ <<>>

AddressOf(pub) == Memo(AddressTable, pub, Address(pub))

\* ------------------------------------------- verification, application
\* TX.VerifyProof: "true", "false", or "panic" where the Go code panics (a
\* slice out of range, or the type assertion item.(account.Account) on an
\* AddressTreeItem, which has none of the methods of account.Account).
ProofByData(tx, address) ==
    IF NewPublicPanics(tx.Data) THEN "panic"
    ELSE LET pub == NewPublic(tx.Data)
         IN  IF Address(pub) # address THEN "false"
             ELSE IF VerifyPanics(tx.Proof) THEN "panic"
             ELSE IF ~AccountVerify(pub, TxPartialHash(tx), tx.Proof) THEN "false"
             ELSE "true"

ItemAsAccountPanics(item) == TRUE

VerifyProof(tx, addresses) ==
    IF tx.Type \in {TypeCoinbase, TypeAccount}
    THEN ProofByData(tx, IF tx.Type = TypeCoinbase THEN tx.Recipient ELSE tx.Sender)
    ELSE IF tx.Type = TypeTransfer THEN
        IF ~Has(addresses, tx.Sender) THEN "false"
        ELSE LET item == Get(addresses, tx.Sender)
             IN  IF ItemAsAccountPanics(item) THEN "panic"
                 ELSE IF Address(item.Account) # tx.Sender THEN "false"
                 ELSE IF VerifyPanics(tx.Proof) THEN "panic"
                 ELSE IF ~AccountVerify(item.Account, TxPartialHash(tx), tx.Proof)
                      THEN "false"
                 ELSE "true"
    ELSE "false"

\* VerifyFees without the bound on the amount of a coinbase.
VerifyFeesAnyAmount(tx, reward, complexity) ==
    IF tx.Type = TypeCoinbase THEN TRUE
    ELSE IF tx.Type = TypeAccount THEN TRUE
    ELSE IF tx.Type = TypeTransfer
         THEN tx.Fee >= CalculateFee(Len(tx.Data) % U64, complexity)
    ELSE FALSE

\* TX.VerifyFees
VerifyFees(tx, reward, complexity) ==
    IF tx.Type = TypeCoinbase THEN tx.Amount <= reward
    ELSE IF tx.Type = TypeAccount THEN TRUE
    ELSE IF tx.Type = TypeTransfer
         THEN tx.Fee >= CalculateFee(Len(tx.Data) % U64, complexity)
    ELSE FALSE

\* The item the Coinbase and Account cases of Apply start from: the stored
\* one, or a new one built from tx.Data.
UpsertItem(tx, addresses, address) ==
    IF Has(addresses, address) THEN Get(addresses, address)
    ELSE LET addr == NewPublic(tx.Data)
         IN  [Address |-> AddressOf(addr), Account |-> addr, Funds |-> 0]

Applied(res, tree) == [res |-> res, tree |-> tree]

ApplyCoinbase(tx, addresses) ==
    IF ~Has(addresses, tx.Recipient) /\ NewPublicPanics(tx.Data)
    THEN Applied("panic", addresses)
    ELSE Applied("true",
           ReplaceOrInsert(addresses,
             [UpsertItem(tx, addresses, tx.Recipient) EXCEPT
                !.Funds = (@ + tx.Amount) % U64]))

\* The Account case without the comparison of tx.Data with the key.
AccountCheckedAnyData(tx, addresses, addrItem, address) ==
    IF tx.Sender # address THEN Applied("false", addresses)
    ELSE Applied("true", ReplaceOrInsert(addresses, addrItem))

\* The checks of the Account case on the item found or built.
AccountChecked(tx, addresses, addrItem, address) ==
    IF tx.Sender # address THEN Applied("false", addresses)
    ELSE IF tx.Data # PublicKeyBytes(addrItem.Account)
       THEN Applied("false", addresses)
    ELSE Applied("true", ReplaceOrInsert(addresses, addrItem))

ApplyAccount(tx, addresses) ==
    IF ~Has(addresses, tx.Sender) /\ NewPublicPanics(tx.Data)
    THEN Applied("panic", addresses)
    ELSE AccountChecked(tx, addresses, UpsertItem(tx, addresses, tx.Sender),
                        AddressOf(UpsertItem(tx, addresses, tx.Sender).Account))

\* The Transfer case with the sender's debit stored before the test of
\* the recipient's credit.
ApplyTransferDebitFirst(tx, addresses) ==
    IF ~Has(addresses, tx.Sender) THEN Applied("false", addresses)
    ELSE IF ~Has(addresses, tx.Recipient) THEN Applied("false", addresses)
    ELSE LET item == Get(addresses, tx.Sender)
             recipientAddrItem == item
             total == (tx.Fee + tx.Amount) % U64
         IN  IF total < tx.Amount THEN Applied("false", addresses)
             ELSE IF item.Funds < total THEN Applied("false", addresses)
             ELSE LET addrItem == [item EXCEPT !.Funds = (@ + U64 - total) % U64]
                      credited == [recipientAddrItem EXCEPT
                                     !.Funds = (@ + tx.Amount) % U64]
                  IN  IF (recipientAddrItem.Funds + tx.Amount) % U64
                            < recipientAddrItem.Funds
                      THEN Applied("false", ReplaceOrInsert(addresses, addrItem))
                      ELSE Applied("true",
                             ReplaceOrInsert(ReplaceOrInsert(addresses, credited),
                                             addrItem))

\* The Transfer case.  Line 177 takes the recipient's item from `item`,
\* the sender's, and not from recipientItem.
ApplyTransfer(tx, addresses) ==
    IF ~Has(addresses, tx.Sender) THEN Applied("false", addresses)
    ELSE IF ~Has(addresses, tx.Recipient) THEN Applied("false", addresses)
    ELSE LET item == Get(addresses, tx.Sender)
             recipientAddrItem == item
             total == (tx.Fee + tx.Amount) % U64
         IN  IF total < tx.Amount THEN Applied("false", addresses)
             ELSE IF item.Funds < total THEN Applied("false", addresses)
             ELSE IF (recipientAddrItem.Funds + tx.Amount) % U64
                        < recipientAddrItem.Funds
                THEN Applied("false", addresses)
             ELSE LET addrItem == [item EXCEPT !.Funds = (@ + U64 - total) % U64]
                      credited == [recipientAddrItem EXCEPT
                                     !.Funds = (@ + tx.Amount) % U64]
                  IN  Applied("true",
                        ReplaceOrInsert(ReplaceOrInsert(addresses, credited),
                                        addrItem))

\* TX.Apply: the outcome and the address book it leaves.  A kind outside
\* the three inserts the zero AddressTreeItem.
Apply(tx, addresses) ==
    IF tx.Type = TypeCoinbase THEN ApplyCoinbase(tx, addresses)
    ELSE IF tx.Type = TypeAccount THEN ApplyAccount(tx, addresses)
    ELSE IF tx.Type = TypeTransfer THEN ApplyTransfer(tx, addresses)
    ELSE Applied("true",
           ReplaceOrInsert(addresses,
             [Address |-> <<>>, Account |-> [X |-> <<>>, Y |-> <<>>],
              Funds |-> 0]))

ProofTable ==
    [tx \in {t \in PoolTxs : t.Type # TypeTransfer} |-> VerifyProof(tx, {})] @@ <<>>

ProofOf(tx, addresses) == Memo(ProofTable, tx, VerifyProof(tx, addresses))

\* -------------------------------------------------------------- block
RECURSIVE TxHashes(_, _)
TxHashes(data, i) ==
    IF i > Len(data) THEN <<>> ELSE HashOf(data[i]) \o TxHashes(data, i + 1)

\* Block.Hash
BlockHash(b) ==
    Sum(PutUint64(b.Chain) \o PutUint64(b.Index) \o PutUint64(b.Complexity)
        \o PutUint64(b.Timestamp) \o PutUint64(b.Variance)
        \o b.PreviousHash \o TxHashes(b.Data, 1))

\* The loop without requiredQuality -= leadingZeros.
RECURSIVE CompliantFromNoCarry(_, _, _)
CompliantFromNoCarry(hash, i, requiredQuality) ==
    IF i > Len(hash) THEN FALSE
    ELSE IF requiredQuality <= LeadingZeros8(hash[i]) THEN TRUE
    ELSE IF LeadingZeros8(hash[i]) < LeadingZeros8(0) THEN FALSE
    ELSE CompliantFromNoCarry(hash, i + 1, requiredQuality)

\* The loop with the subtraction first, in uint64, and a test for zero.
RECURSIVE CompliantFromSubFirst(_, _, _)
CompliantFromSubFirst(hash, i, requiredQuality) ==
    IF i > Len(hash) THEN FALSE
    ELSE IF (requiredQuality - LeadingZeros8(hash[i])) % (2 ^ 30) = 0 THEN TRUE
    ELSE IF LeadingZeros8(hash[i]) < LeadingZeros8(0) THEN FALSE
    ELSE CompliantFromSubFirst(hash, i + 1,
                               (requiredQuality - LeadingZeros8(hash[i])) % (2 ^ 30))

\* The loop of Block.Compliant over the bytes of the hash.
RECURSIVE CompliantFrom(_, _, _)
CompliantFrom(hash, i, requiredQuality) ==
    IF i > Len(hash) THEN FALSE
    ELSE LET leadingZeros == LeadingZeros8(hash[i])
         IN  IF requiredQuality <= leadingZeros THEN TRUE
             ELSE IF leadingZeros < LeadingZeros8(0) THEN FALSE
             ELSE CompliantFrom(hash, i + 1, requiredQuality - leadingZeros)

Compliant(b) == CompliantFrom(BlockHash(b), 1, HashQuality(b.Complexity))

\* Trees live in a heap, pointer -> items, so that a clone and its original
\* are two objects.  BTree.Clone gives a new tree with the same items; the
\* two then change independently (copy on write).
Clone(heap, p) ==
    LET q == 1 + Cardinality(DOMAIN heap)
    IN  [ptr |-> q, heap |-> [x \in DOMAIN heap \cup {q} |->
                                IF x = q THEN heap[p] ELSE heap[x]]]

Verified(err, at, ptr, heap) == [err |-> err, at |-> at, ptr |-> ptr, heap |-> heap]

\* The loop of Block.Verify from transaction i on; tree is the clone.
\* VerifyTx is the part of a round after VerifyProof and Apply.
RECURSIVE VerifyFrom(_, _, _, _, _, _)
VerifyTx(b, heap, fallback, tree, reward, i, proof, a) ==
    IF proof = "panic" THEN Verified("panic", i, fallback, heap)
    ELSE IF proof = "false" THEN Verified("proof", i, fallback, heap)
    ELSE IF a.res = "panic"
       THEN Verified("panic", i, fallback, [heap EXCEPT ![tree] = a.tree])
    ELSE IF a.res = "false"
       THEN Verified("apply", i, fallback, [heap EXCEPT ![tree] = a.tree])
    ELSE VerifyFrom(b, [heap EXCEPT ![tree] = a.tree], fallback, tree, reward, i + 1)

\* The loop without the test of the place of the coinbase.
VerifyFromAnyPlace(b, heap, fallback, tree, reward, i) ==
    IF i > Len(b.Data) THEN Verified("ok", 0, tree, heap)
    ELSE IF ~VerifyFees(b.Data[i], reward, b.Complexity)
       THEN Verified("fees", i, fallback, heap)
    ELSE VerifyTx(b, heap, fallback, tree, reward, i,
                  ProofOf(b.Data[i], heap[tree]), Apply(b.Data[i], heap[tree]))

VerifyFrom(b, heap, fallback, tree, reward, i) ==
    IF i > Len(b.Data) THEN Verified("ok", 0, tree, heap)
    ELSE IF (b.Data[i].Type = TypeCoinbase) # (i = 1)
       THEN Verified("coinbase", i, fallback, heap)
    ELSE IF ~VerifyFees(b.Data[i], reward, b.Complexity)
       THEN Verified("fees", i, fallback, heap)
    ELSE VerifyTx(b, heap, fallback, tree, reward, i,
                  ProofOf(b.Data[i], heap[tree]), Apply(b.Data[i], heap[tree]))

\* Block.Verify without the check of the length of Data.
VerifyAnyLength(b, heap, fallback) ==
    IF ~Compliant(b) THEN Verified("compliant", 0, fallback, heap)
    ELSE VerifyFrom(b, Clone(heap, fallback).heap, fallback,
                    Clone(heap, fallback).ptr, BlockReward(b.Complexity, b.Data), 1)

\* Block.Verify(fallback): the error ("ok" for nil, "panic" for a panic),
\* the index of the failing transaction, the tree returned and the heap.
Verify(b, heap, fallback) ==
    IF ~Compliant(b) THEN Verified("compliant", 0, fallback, heap)
    ELSE IF Len(b.Data) < 1 THEN Verified("empty", 0, fallback, heap)
    ELSE VerifyFrom(b, Clone(heap, fallback).heap, fallback,
                    Clone(heap, fallback).ptr, BlockReward(b.Complexity, b.Data), 1)

\* SuccessorOf without the comparison of the timestamps.
SuccessorOfAnyTime(b, prev) ==
    IF b.Chain # prev.Chain THEN "chain"
    ELSE IF b.Index # (prev.Index + 1) % U64 THEN "index"
    ELSE IF b.Complexity # (prev.Complexity + 1) % U64 THEN "complexity"
    ELSE IF b.PreviousHash # BlockHash(prev) THEN "hash"
    ELSE "ok"

\* Block.SuccessorOf(prev): "ok" for nil.
SuccessorOf(b, prev) ==
    IF b.Chain # prev.Chain THEN "chain"
    ELSE IF b.Index # (prev.Index + 1) % U64 THEN "index"
    ELSE IF b.Complexity # (prev.Complexity + 1) % U64 THEN "complexity"
    ELSE IF b.Timestamp < prev.Timestamp THEN "timestamp"
    ELSE IF b.PreviousHash # BlockHash(prev) THEN "hash"
    ELSE "ok"

\* Block.Append
BlockAppend(b, tx) == [b EXCEPT !.Data = Append(@, tx)]

Genesis(chain, complexity, creator, t, nonce) ==
    [Chain |-> chain, Index |-> 0, Complexity |-> complexity, Timestamp |-> t,
     Variance |-> 0, PreviousHash |-> Zeros(HashSize),
     Data |-> <<NewCoinbase(chain, creator, BlockReward(complexity, <<>>), t, nonce)>>]

NextBlock(prev, t) ==
    [Chain |-> prev.Chain, Index |-> (prev.Index + 1) % U64,
     Complexity |-> (prev.Complexity + 1) % U64, Timestamp |-> t,
     Variance |-> 0, PreviousHash |-> BlockHash(prev), Data |-> <<>>]

\* block.New
NewBlock ==
    [Chain |-> 0, Index |-> 0, Complexity |-> 0, Timestamp |-> 0,
     Variance |-> 0, PreviousHash |-> Zeros(HashSize), Data |-> <<>>]

\* -------------------------------------------------------------- codec
\* TX.Bytes
TxBytes(tx) ==
    PutUint64(tx.Chain) \o PutUint64(tx.Type) \o PutUint64(tx.Amount)
    \o PutUint64(tx.Fee) \o PutUint64(tx.Timestamp)
    \o tx.Sender \o tx.Recipient \o tx.Proof \o tx.Data

RECURSIVE TxsBytes(_, _)
TxsBytes(data, i) ==
    IF i > Len(data) THEN <<>>
    ELSE LET txBytes == TxBytes(data[i])
         IN  PutUint64(Len(txBytes) % U64) \o txBytes \o TxsBytes(data, i + 1)

\* Block.Bytes
BlockBytes(b) ==
    PutUint64(b.Chain) \o PutUint64(b.Index) \o PutUint64(b.Complexity)
    \o PutUint64(b.Timestamp) \o PutUint64(b.Variance)
    \o PutUint64(Len(b.Data) % U64) \o b.PreviousHash \o TxsBytes(b.Data, 1)

Drop(src, n) == SubSeq(src, n + 1, Len(src))

\* binary.Read(source, binary.LittleEndian, &x) with its error ignored: x
\* keeps its old value when fewer than 8 bytes are left, and the reader
\* is drained.
ReadUint64(src, old) ==
    IF Len(src) >= 8 THEN [v |-> Uint64(SubSeq(src, 1, 8)), rest |-> Drop(src, 8)]
    ELSE [v |-> old, rest |-> <<>>]

\* source.Read(buf) with its result ignored: the bytes there are go to the
\* front of buf, the rest of buf stays.
ReadInto(src, buf) ==
    LET n == IF Len(src) < Len(buf) THEN Len(src) ELSE Len(buf)
    IN  [v |-> SubSeq(src, 1, n) \o SubSeq(buf, n + 1, Len(buf)),
         rest |-> Drop(src, n)]

\* TX.SetBytes
TxSetBytes(tx, b) ==
    LET chain == ReadUint64(b, tx.Chain)
        type == ReadUint64(chain.rest, tx.Type)
        amount == ReadUint64(type.rest, tx.Amount)
        fee == ReadUint64(amount.rest, tx.Fee)
        timestamp == ReadUint64(fee.rest, tx.Timestamp)
        sender == ReadInto(timestamp.rest, tx.Sender)
        recipient == ReadInto(sender.rest, tx.Recipient)
        proof == ReadInto(recipient.rest, tx.Proof)
    IN  [Chain |-> chain.v, Type |-> type.v, Amount |-> amount.v, Fee |-> fee.v,
         Timestamp |-> timestamp.v, Sender |-> sender.v,
         Recipient |-> recipient.v, Proof |-> proof.v, Data |-> proof.rest]

\* The loop of Block.SetBytesFrom over b.Data; txSize keeps its value from
\* one round to the next.
RECURSIVE ReadTxs(_, _, _)
ReadTxs(src, n, txSize) ==
    IF n = 0 THEN [v |-> <<>>, rest |-> src]
    ELSE LET size == ReadUint64(src, txSize)
             txBytes == ReadInto(size.rest, Zeros(size.v))
             more == ReadTxs(txBytes.rest, n - 1, size.v)
         IN  [v |-> <<TxSetBytes(NewTX, txBytes.v)>> \o more.v, rest |-> more.rest]

\* Block.SetBytesFrom: the block read and what is left of the source.
SetBytesFrom(b, source) ==
    LET chain == ReadUint64(source, b.Chain)
        index == ReadUint64(chain.rest, b.Index)
        complexity == ReadUint64(index.rest, b.Complexity)
        timestamp == ReadUint64(complexity.rest, b.Timestamp)
        variance == ReadUint64(timestamp.rest, b.Variance)
        dataSize == ReadUint64(variance.rest, 0)
        previousHash == ReadInto(dataSize.rest, b.PreviousHash)
        data == ReadTxs(previousHash.rest, dataSize.v, 0)
    IN  [v |-> [Chain |-> chain.v, Index |-> index.v, Complexity |-> complexity.v,
                Timestamp |-> timestamp.v, Variance |-> variance.v,
                PreviousHash |-> previousHash.v, Data |-> data.v],
         rest |-> data.rest]

\* Block.SetBytes calls b.SetBytesFrom(buffer) and returns b, its own copy
\* of the block and not the one SetBytesFrom returns.  The two copies
\* share the array behind PreviousHash, which source.Read fills.
SetBytes(b, data) ==
    [b EXCEPT !.PreviousHash = SetBytesFrom(b, data).v.PreviousHash]

\* ------------------------------------------------------------- mining
WithVariance(init, v) == [init EXCEPT !.Variance = v]

\* The first variance in [v, hi) that makes init compliant, or -1: what
\* the loop of runVarianceWorker publishes first from a chunk.
RECURSIVE FirstCompliant(_, _, _)
FirstCompliant(init, v, hi) ==
    IF v >= hi THEN -1
    ELSE IF Compliant(WithVariance(init, v)) THEN v
    ELSE FirstCompliant(init, v + 1, hi)

\* The variances Find can return: the first compliant one of a chunk, for
\* the first `need` chunks that hold one (a worker may stall on each of
\* the chunks before).  Chunk k is [k * size, (k + 1) * size) modulo 2^64.
RECURSIVE Winners(_, _, _)
Winners(init, k, need) ==
    IF need = 0 \/ k * VarianceChunkSize >= U64 THEN {}
    ELSE LET first == FirstCompliant(init, k * VarianceChunkSize,
                                      ((k + 1) * VarianceChunkSize) % U64)
         IN  ({first} \ {-1})
               \cup Winners(init, k + 1, IF first = -1 THEN need ELSE need - 1)

\* Find(init), as the ledger sees it: the blocks it can return.
FindResults(init) == {WithVariance(init, v) : v \in Winners(init, 0, NumCPU)}

\* ------------------------------------------------------------- ledger
\* ledger.New
NewLedger(chain) == [Chain |-> chain, Blocks |-> <<>>, Addresses |-> 1]

Size(l) == Len(l.Blocks)

Last(l) == l.Blocks[Size(l)]

NoVerify == [err |-> "none", at |-> 0, same |-> TRUE, kept |-> TRUE]

\* What a call of Block.Verify did: its error, the transaction it failed
\* at, whether it returned the tree it was given, and whether that tree
\* holds the items it held before.
VerifyRecord(v, heap, fallback) ==
    [err |-> v.err, at |-> v.at, same |-> v.ptr = fallback,
     kept |-> v.heap[fallback] = heap[fallback]]

Appended(l, heap, err, verify) ==
    [l |-> l, heap |-> heap, err |-> err, verify |-> verify]

\* Ledger.Append storing the tree and the block before it looks at the
\* error of Verify.
AppendVerifiedEarly(l, heap, b, v) ==
    Appended([l EXCEPT !.Addresses = v.ptr, !.Blocks = Append(@, b)],
             v.heap,
             IF v.err \in {"ok", "panic"} THEN v.err ELSE "verify",
             VerifyRecord(v, heap, l.Addresses))

\* The part of Ledger.Append after b.Verify(l.Addresses) gave v.
AppendVerified(l, heap, b, v) ==
    Appended(IF v.err = "ok"
             THEN [l EXCEPT !.Addresses = v.ptr, !.Blocks = Append(@, b)]
             ELSE l,
             v.heap,
             IF v.err \in {"ok", "panic"} THEN v.err ELSE "verify",
             VerifyRecord(v, heap, l.Addresses))

\* Ledger.Append: the ledger and heap it leaves, its error ("ok" for nil,
\* "panic" when Verify panics) and the record of its Verify call.
LedgerAppend(l, heap, b) ==
    IF Size(l) > 0 /\ SuccessorOf(b, Last(l)) # "ok"
    THEN Appended(l, heap, "successor", NoVerify)
    ELSE AppendVerified(l, heap, b, Verify(b, heap, l.Addresses))

\* Ledger.WriteTo
WriteTo(l) ==
    LET BlocksBytes[i \in 1..(Size(l) + 1)] ==
            IF i > Size(l) THEN <<>> ELSE BlockBytes(l.Blocks[i]) \o BlocksBytes[i + 1]
    IN  PutUint64(l.Chain) \o PutUint64(Size(l) % U64) \o BlocksBytes[1]

\* The loop of Ledger.ReadFrom: n blocks still to read from r.  ReadBlock
\* is one round, with the block b read and the outcome a of its Append.
RECURSIVE ReadBlocks(_, _, _, _, _)
ReadNext(a, rest, n) ==
    IF a.err # "ok" THEN a ELSE ReadBlocks(a.l, a.heap, rest, n - 1, a.verify)

ReadBlock(l, heap, b, n) == ReadNext(LedgerAppend(l, heap, b.v), b.rest, n)

ReadBlocks(l, heap, r, n, verify) ==
    IF n = 0 THEN Appended(l, heap, "ok", verify)
    ELSE ReadBlock(l, heap, SetBytesFrom(NewBlock, r), n)

\* Ledger.ReadFrom
LedgerReadFrom(l, heap, r) ==
    LET fresh == 1 + Cardinality(DOMAIN heap)
        chain == ReadUint64(r, l.Chain)
        size == ReadUint64(chain.rest, 0)
    IN  ReadBlocks([Chain |-> chain.v, Blocks |-> <<>>, Addresses |-> fresh],
                   [x \in DOMAIN heap \cup {fresh} |->
                      IF x = fresh THEN NewAddressTree ELSE heap[x]],
                   size.rest, size.v, NoVerify)

\* Ledger.Init, given the block Find returned for the genesis.
LedgerInit(l, heap, found) == LedgerAppend([l EXCEPT !.Blocks = <<>>], heap, found)

\* ------------------------------------------------------- candidates
\* The genesis blocks of Ledger.Init, before mining.
GenesisTable ==
    [c \in Chains, k \in {KeyA, KeyShort}, t \in Times |->
        Genesis(c, GenesisComplexity, k, t, 1)] @@ <<>>

\* A miner's block: the header with the first variance that complies, or
\* with variance 0 when none does.
OrZero(v) == IF v = -1 THEN 0 ELSE v

Mined(b) == WithVariance(b, OrZero(FirstCompliant(b, 0, U64)))

Header(chain, index, complexity, t, previousHash, data) ==
    [Chain |-> chain, Index |-> index, Complexity |-> complexity,
     Timestamp |-> t, Variance |-> 0, PreviousHash |-> previousHash,
     Data |-> data]

\* The blocks handed to Append on an empty ledger: mined first blocks with
\* every body, and mined blocks of another chain or a later index.
FirstBlocks(l) ==
    UNION {{Mined(Header(l.Chain, 0, cx, 0, Zeros(HashSize), body)) :
              body \in BodyTable[l.Chain, cx, 0]} : cx \in Complexities}
    \cup {Mined(Header(h[1], h[2], 15, 0, Zeros(HashSize),
                       <<NewCoinbase(l.Chain, KeyA, 0, 0, 1)>>)) :
            h \in {<<1 - l.Chain, 0>>, <<l.Chain, 1>>, <<l.Chain, U64 - 1>>}}

\* The blocks handed to Append on a ledger that holds blocks: mined
\* successors of the last block with every body, the plain successor with
\* other variances, at the other times, and with one header field changed.
NextBlocks(l) ==
    LET prev == Last(l)
        t0 == prev.Timestamp
        cx == (prev.Complexity + 1) % U64
        next == NextBlock(prev, t0)
        plain == [next EXCEPT !.Data = <<NewCoinbase(l.Chain, KeyA, BlockReward(cx, <<>>), t0, 1)>>]
    IN  {Mined([next EXCEPT !.Data = body]) : body \in BodyTable[l.Chain, cx, t0]}
        \cup {WithVariance(plain, v) : v \in 0..1}
        \cup {Mined([plain EXCEPT !.Timestamp = t]) : t \in Times}
        \cup { [plain EXCEPT !.Chain = 1 - @],
               [plain EXCEPT !.Index = (@ + 1) % U64],
               [plain EXCEPT !.Index = 0],
               [plain EXCEPT !.Complexity = (@ + 1) % U64],
               [plain EXCEPT !.Complexity = prev.Complexity],
               [plain EXCEPT !.PreviousHash = Zeros(HashSize)] }

Candidates(l) == IF Size(l) = 0 THEN FirstBlocks(l) ELSE NextBlocks(l)

\* The places of a written ledger where a byte is changed: in the variance
\* of the first block and in the previous hash of the second.
FlipAt(l) ==
    {49} \cup (IF Size(l) < 2 THEN {} ELSE {16 + Len(BlockBytes(l.Blocks[1])) + 49})

\* The places where a written ledger is cut: in the middle, and behind the
\* previous hash of its last block.
CutAt(l, w) ==
    {Len(w) \div 2}
    \cup (IF Size(l) < 1 THEN {} ELSE {Len(w) - Len(TxsBytes(Last(l).Data, 1))})

\* The streams handed to ReadFrom: what WriteTo writes for the ledger,
\* whole, cut short, or with the lowest bit of one byte changed.
Streams(l) ==
    LET w == WriteTo(l)
    IN  {w}
        \cup {SubSeq(w, 1, n) : n \in CutAt(l, w)}
        \cup {[w EXCEPT ![at] = IF @ % 2 = 0 THEN @ + 1 ELSE @ - 1] :
                at \in FlipAt(l) \cap (1..Len(w))}

\* -------------------------------------------------------------- state
VARIABLES
    ledger,   \* the Ledger: Chain, Blocks, and Addresses, a pointer into trees
    trees,    \* the heap of address trees: pointer -> items
    last,     \* the call that has just ended and its outcome, or "idle"
    inits,    \* the calls of Init so far
    book,     \* the address tree that transactions are applied to directly
    call,     \* the last direct call on a transaction and its outcome
    input,    \* the block handed to Find
    find,     \* the calls of Find that run in parallel
    eval      \* the last call of a function without side effects: input, result

ledgerVars == <<ledger, trees, last, inits>>

txVars == <<book, call>>

findVars == <<input, find>>

evalVars == <<eval>>

vars == <<ledgerVars, txVars, findVars, evalVars>>

Idle == [op |-> "idle", err |-> "ok", verify |-> NoVerify, r |-> <<>>]

Book == trees[ledger.Addresses]

\* The outcome of a call becomes the state; trees nothing points to any
\* more are collected, and the ledger's tree is pointer 1 again.
Outcome(op, a, r) ==
    /\ ledger' = [a.l EXCEPT !.Addresses = 1]
    /\ trees' = [p \in {1} |-> a.heap[a.l.Addresses]]
    /\ last' = [op |-> op, err |-> a.err, verify |-> a.verify, r |-> r]

\* The outcome of a call that reads no stream.
Return(op, a) == Outcome(op, a, <<>>)

Running == last.op = "idle"

NoCall == [op |-> "none", n |-> 0]

LedgerAtRest ==
    /\ ledger = NewLedger(0)
    /\ trees = [p \in {1} |-> NewAddressTree]
    /\ last = Idle
    /\ inits = 0

TxAtRest ==
    /\ book = NewAddressTree
    /\ call = NoCall

FindAtRest ==
    /\ input = NewBlock
    /\ find = EmptyBag

NoEval == [op |-> "none"]

EvalAtRest == eval = NoEval

Init == LedgerAtRest /\ TxAtRest /\ FindAtRest /\ EvalAtRest

\* chain.Init(complexity, creator) at time t.  Find does not return when
\* no variance makes the genesis compliant.
DoInit ==
    /\ Running
    /\ inits < MaxInits
    /\ inits' = inits + 1
    /\ UNCHANGED <<txVars, findVars, evalVars>>
    /\ \E creator \in {KeyA, KeyShort}, t \in Times :
         LET found == FindResults(GenesisTable[ledger.Chain, creator, t])
         IN  IF found = {}
             THEN Return("Init", Appended([ledger EXCEPT !.Blocks = <<>>], trees,
                                          "hang", NoVerify))
             ELSE \E b \in found : Return("Init", LedgerInit(ledger, trees, b))

\* ledger.Append(b)
DoAppend ==
    /\ Running
    /\ Size(ledger) < MaxBlocks
    /\ \E b \in Candidates(ledger) : Return("Append", LedgerAppend(ledger, trees, b))
    /\ UNCHANGED <<inits, txVars, findVars, evalVars>>

\* ledger.ReadFrom(r)
DoReadFrom ==
    /\ Running
    /\ \E r \in Streams(ledger) : Outcome("ReadFrom", LedgerReadFrom(ledger, trees, r), r)
    /\ UNCHANGED <<inits, txVars, findVars, evalVars>>

\* The caller takes the result; a panic or a hanging Find ends the program.
Done ==
    /\ last.op # "idle"
    /\ last.err \notin {"panic", "hang"}
    /\ last' = Idle
    /\ UNCHANGED <<ledger, trees, inits, txVars, findVars, evalVars>>

Next == DoInit \/ DoAppend \/ DoReadFrom \/ Done

Spec == Init /\ [][Next]_vars

\* ------------------------------------------- transactions, directly
\* The transactions handed to VerifyProof and Apply directly: coinbases
\* and an account, transfers between the two keys that the funds cover,
\* one whose fee and amount overflow, one from a key with no entry, and
\* one that carries the signature of the recipient; a coinbase of three
\* quarters of the largest value and a transfer of half of it, whose
\* credit overflows; an account that names the key of another.
TxPool ==
    LET transfer == NewTransfer(0, 2, 1, KeyA, KeyB, 0, 1)
    IN  { NewCoinbase(0, KeyA, RewardBase, 0, 1),
          NewCoinbase(0, KeyB, RewardBase, 0, 1),
          NewAccount(0, KeyB, 0, 1),
          NewCoinbase(0, KeyA, U64 - U64 \div 4, 0, 1),
          NewTransfer(0, U64 \div 2, 1, KeyA, KeyB, 0, 1),
          [NewAccount(0, KeyB, 0, 1) EXCEPT !.Data = PublicKeyBytes(KeyA)],
          transfer,
          NewTransfer(0, 2, 1, KeyB, KeyA, 0, 1),
          NewTransfer(0, U64 - 1, 2, KeyA, KeyB, 0, 1),
          NewTransfer(0, 2, 1, KeyShort, KeyB, 0, 1),
          [transfer EXCEPT !.Proof = Sign(KeyB, TxPartialHash(transfer), 1)] }

TxTable == [i \in {1} |-> TxPool] @@ <<>>

TxInit == LedgerAtRest /\ TxAtRest /\ FindAtRest /\ EvalAtRest

\* tx.Apply(book)
DoApply ==
    /\ call.n < MaxApplies
    /\ \E tx \in TxTable[1] :
         /\ call' = [op |-> "Apply", tx |-> tx, before |-> book,
                     res |-> Apply(tx, book).res, n |-> call.n + 1]
         /\ book' = Apply(tx, book).tree
    /\ UNCHANGED <<ledgerVars, findVars, evalVars>>

\* tx.VerifyProof(book)
DoVerifyProof ==
    /\ \E tx \in TxTable[1] :
         call' = [op |-> "VerifyProof", tx |-> tx, before |-> book,
                  res |-> VerifyProof(tx, book), n |-> call.n]
    /\ UNCHANGED <<book, ledgerVars, findVars, evalVars>>

TxNext == DoApply \/ DoVerifyProof

TxSpec == TxInit /\ [][TxNext]_vars

\* ------------------------------------------------- transaction properties
\* C7  Transfer application: when Apply succeeds on a Transfer whose sender
\* and recipient both have an entry, the funds of the sender go down by
\* fee + amount, the funds of the recipient go up by amount, both entries
\* are in the book, and no other entry changes.
TransferApplication ==
    (/\ call.op = "Apply"
     /\ call.tx.Type = TypeTransfer
     /\ call.res = "true"
     /\ Has(call.before, call.tx.Sender)
     /\ Has(call.before, call.tx.Recipient))
    => /\ Has(book, call.tx.Sender)
       /\ Has(book, call.tx.Recipient)
       /\ Get(book, call.tx.Sender).Funds
            = Get(call.before, call.tx.Sender).Funds - (call.tx.Fee + call.tx.Amount)
       /\ Get(book, call.tx.Recipient).Funds
            = Get(call.before, call.tx.Recipient).Funds + call.tx.Amount
       /\ {x \in book : x.Address \notin {call.tx.Sender, call.tx.Recipient}}
            = {x \in call.before : x.Address \notin {call.tx.Sender, call.tx.Recipient}}

\* C8  Transfer authorization: VerifyProof of a Transfer returns true when
\* the book has an entry for the sender whose account has the address of
\* the sender and verifies the proof over the partial hash, and returns
\* false in every other case.
TransferAuthorization ==
    (call.op = "VerifyProof" /\ call.tx.Type = TypeTransfer)
    => call.res =
         IF /\ Has(call.before, call.tx.Sender)
            /\ Address(Get(call.before, call.tx.Sender).Account) = call.tx.Sender
            /\ AccountVerify(Get(call.before, call.tx.Sender).Account,
                             TxPartialHash(call.tx), call.tx.Proof)
         THEN "true" ELSE "false"

\* C19  Rejected Apply does not mutate: whenever Apply returns false, the
\* address book handed to it is what it was before the call.
RejectedApplyKeepsBook ==
    (call.op = "Apply" /\ call.res = "false") => book = call.before

\* A transfer refused at the last test, that of the credit, after the
\* debit was computed: sender and recipient have entries and the funds
\* cover fee and amount.
CreditOverflowRefused ==
    /\ call.op = "Apply"
    /\ call.res = "false"
    /\ call.tx.Type = TypeTransfer
    /\ Has(call.before, call.tx.Sender)
    /\ Has(call.before, call.tx.Recipient)
    /\ call.tx.Fee + call.tx.Amount < U64
    /\ Get(call.before, call.tx.Sender).Funds >= call.tx.Fee + call.tx.Amount

\* The funds of an address in a book, 0 without an entry.
FundsOf(tree, address) == IF Has(tree, address) THEN Get(tree, address).Funds ELSE 0

\* C25  Balances never wrap: after every transaction that Apply accepts,
\* the funds of the recipient of a Coinbase are the funds before plus the
\* amount, the funds of the sender of a Transfer are the funds before
\* minus fee and amount, both as integers and not modulo the word, and no
\* other entry has less than before.
BalancesNeverWrap ==
    (call.op = "Apply" /\ call.res = "true")
    => \A x \in book :
         IF call.tx.Type = TypeCoinbase /\ x.Address = call.tx.Recipient
         THEN x.Funds = FundsOf(call.before, x.Address) + call.tx.Amount
         ELSE IF call.tx.Type = TypeTransfer /\ x.Address = call.tx.Sender
         THEN x.Funds = FundsOf(call.before, x.Address) - (call.tx.Fee + call.tx.Amount)
         ELSE x.Funds >= FundsOf(call.before, x.Address)

\* The part that holds: no debit takes funds below zero.
DebitNeverWraps ==
    (call.op = "Apply" /\ call.res = "true" /\ call.tx.Type = TypeTransfer)
    => /\ FundsOf(call.before, call.tx.Sender) >= call.tx.Fee + call.tx.Amount
       /\ FundsOf(book, call.tx.Sender)
            = FundsOf(call.before, call.tx.Sender) - (call.tx.Fee + call.tx.Amount)

\* ------------------------------------------------------------- Find
\* The calls of Find that run in parallel, all on the same block.
Calls == {1, 2}

\* The blocks handed to Find: the genesis of each chain.
FindInputs == {GenesisTable[c, KeyA, c] : c \in Chains}

\* A bag with one element replaced by another.
Move(bag, from, to) == (bag (-) SetToBag({from})) (+) SetToBag({to})

\* A worker in its select, in its loop over the chunk with the loop
\* variable at v, or returned; quit says that it took a value from the quit
\* channel.  The workers of a call are the bag of their states.
Worker(pc, v, hi, quit) == [pc |-> pc, v |-> v, hi |-> hi, quit |-> quit]

\* procs := runtime.NumCPU()
procs == NumCPU

\* A call of Find after it has started its workers: the dispatcher in its
\* loop with its variables, and the channels (chunks and quit hold nothing,
\* sols holds at most one value).
Started ==
    [pc |-> "loop", varianceChunk |-> 0, variance |-> 0, sols |-> <<>>,
     quits |-> 0, closed |-> FALSE, late |-> FALSE, panic |-> FALSE,
     result |-> NewBlock,
     workers |-> [w \in {Worker("select", 0, 0, FALSE)} |-> procs]]

\* The loop of quit <- true ends one round early.
AllQuitsSentEarly(quits) == quits >= procs - 1

\* The loop of quit <- true goes one round too far.
AllQuitsSentLate(quits) == quits > procs

\* The condition that ends the loop of quit <- true.
AllQuitsSent(quits) == ~(quits < procs)

\* A worker that sends every variance of its chunk.
PublishesAll(b) == TRUE

\* A worker sends the variance of a block it finds compliant.
Publishes(b) == Compliant(b)

\* Publishes, computed once for the blocks and variances of the chunks
\* that the dispatcher hands out.
PublishTable ==
    [k \in FindInputs \X (0..(MaxChunks * VarianceChunkSize)) |->
        Publishes(WithVariance(k[1], k[2]))] @@ <<>>

\* The next variance in [v, hi) that the worker sends, or -1.
RECURSIVE NextPublished(_, _, _)
NextPublished(init, v, hi) ==
    IF ~(v < hi) THEN -1
    ELSE IF Memo(PublishTable, <<init, v>>, Publishes(WithVariance(init, v))) THEN v
    ELSE NextPublished(init, v + 1, hi)

\* select { case sols <- v: default: } on the channel of capacity 1.
Offer(sols, v) == IF Len(sols) < 1 THEN Append(sols, v) ELSE sols

\* The loop of a worker over its chunk, up to the next variance it sends
\* (v) or to its end (-1).  A send on a closed channel panics.
Scanned(f, w, v) ==
    IF v = -1
    THEN [f EXCEPT !.workers = Move(@, w, Worker("select", 0, 0, FALSE))]
    ELSE [f EXCEPT !.workers = Move(@, w, Worker("scan", v + 1, w.hi, FALSE)),
                   !.sols = IF f.closed THEN @ ELSE Offer(@, v),
                   !.panic = @ \/ f.closed]

FindInit ==
    /\ LedgerAtRest
    /\ TxAtRest
    /\ EvalAtRest
    /\ input \in FindInputs
    /\ find = [f \in {Started} |-> Cardinality(Calls)]

\* The dispatcher hands the next chunk to a worker that waits in its select.
Dispatch ==
    /\ \E f \in BagToSet(find), w \in {Worker("select", 0, 0, FALSE)} :
         /\ f.pc = "loop"
         /\ f.varianceChunk \div VarianceChunkSize < MaxChunks
         /\ BagIn(w, f.workers)
         /\ find' = Move(find, f,
              [f EXCEPT
                 !.workers = Move(@, w,
                    Worker("scan", f.varianceChunk,
                           (f.varianceChunk + VarianceChunkSize) % U64, FALSE)),
                 !.varianceChunk = (@ + VarianceChunkSize) % U64])
    /\ UNCHANGED <<input, ledgerVars, txVars, evalVars>>

\* The dispatcher takes a variance from sols and leaves its loop.
Solution ==
    /\ \E f \in BagToSet(find) :
         /\ f.pc = "loop"
         /\ f.sols # <<>>
         /\ find' = Move(find, f, [f EXCEPT !.variance = Head(f.sols),
                                            !.sols = Tail(@),
                                            !.pc = "quit"])
    /\ UNCHANGED <<input, ledgerVars, txVars, evalVars>>

\* A step a worker takes by itself: its loop over the chunk up to the next
\* send, or, in its select, a receive from a channel that is closed.
Work ==
    /\ \E f \in BagToSet(find) : \E w \in BagToSet(f.workers) :
         IF w.pc = "scan"
         THEN find' = Move(find, f, Scanned(f, w, NextPublished(input, w.v, w.hi)))
         ELSE /\ w.pc = "select"
              /\ f.closed
              /\ \E pc \in {"select", "done"} :
                   find' = Move(find, f,
                     [f EXCEPT !.late = TRUE,
                               !.workers = Move(@, w, Worker(pc, 0, 0, FALSE))])
    /\ UNCHANGED <<input, ledgerVars, txVars, evalVars>>

\* quit <- true, taken by a worker that waits in its select, which returns.
Quit ==
    /\ \E f \in BagToSet(find) : \E w \in BagToSet(f.workers) :
         /\ f.pc = "quit"
         /\ ~AllQuitsSent(f.quits)
         /\ w.pc = "select"
         /\ find' = Move(find, f,
              [f EXCEPT !.workers = Move(@, w, Worker("done", 0, 0, TRUE)),
                        !.quits = @ + 1])
    /\ UNCHANGED <<input, ledgerVars, txVars, evalVars>>

\* close(chunks); close(sols); close(quit)
Close ==
    /\ \E f \in BagToSet(find) :
         /\ f.pc = "quit"
         /\ AllQuitsSent(f.quits)
         /\ find' = Move(find, f, [f EXCEPT !.closed = TRUE, !.pc = "closed"])
    /\ UNCHANGED <<input, ledgerVars, txVars, evalVars>>

\* init.Variance = variance; return init
FindReturn ==
    /\ \E f \in BagToSet(find) :
         /\ f.pc = "closed"
         /\ find' = Move(find, f, [f EXCEPT !.result = WithVariance(input, f.variance),
                                            !.pc = "done"])
    /\ UNCHANGED <<input, ledgerVars, txVars, evalVars>>

FindNext == Dispatch \/ Solution \/ Work \/ Quit \/ Close \/ FindReturn

FindSpec == FindInit /\ [][FindNext]_vars

\* Fair scheduling: a goroutine that can take a step takes one, and a
\* select with a ready case does not wait.  Nothing obliges the dispatcher
\* to hand out a chunk rather than take a solution.  The calls are on the
\* genesis block of chain 1.
FindFairInit ==
    /\ LedgerAtRest
    /\ TxAtRest
    /\ EvalAtRest
    /\ input = GenesisTable[1, KeyA, 1]
    /\ find = [f \in {Started} |-> Cardinality(Calls)]

FindFairSpec ==
    /\ FindFairInit
    /\ [][FindNext]_vars
    /\ WF_vars(Solution)
    /\ WF_vars(Work)
    /\ WF_vars(Quit)
    /\ WF_vars(Close)
    /\ WF_vars(FindReturn)

\* The number of calls that have not returned.
Unreturned ==
    BagCardinality([f \in {g \in BagToSet(find) : g.pc # "done"} |-> find[f]])

\* -------------------------------------------------------- Find properties
\* C9  Find postcondition: the block a call of Find returns, under every
\* interleaving of its dispatcher and its workers and with another call
\* running in parallel on the same block, is compliant and has the chain,
\* index, complexity, timestamp, previous hash and transactions of the
\* block the call was given.
FindPostcondition ==
    \A f \in BagToSet(find) :
        f.pc = "done"
        => /\ Compliant(f.result)
           /\ f.result.Chain = input.Chain
           /\ f.result.Index = input.Index
           /\ f.result.Complexity = input.Complexity
           /\ f.result.Timestamp = input.Timestamp
           /\ f.result.PreviousHash = input.PreviousHash
           /\ f.result.Data = input.Data

\* Two calls on the same block have returned different variances.
TwoCallsTwoVariances ==
    \E f \in BagToSet(find), g \in BagToSet(find) :
        /\ f.pc = "done"
        /\ g.pc = "done"
        /\ f.result.Variance # g.result.Variance

\* C10  Clean mining shutdown: when the dispatcher has closed the channels
\* every worker has taken a quit signal and returned, and no worker ever
\* sends on the closed solution channel or receives from a closed channel.
CleanShutdown ==
    \A f \in BagToSet(find) :
        /\ ~f.late
        /\ ~f.panic
        /\ f.closed => \A w \in BagToSet(f.workers) : w.pc = "done" /\ w.quit

\* A call has returned, and a worker of it had sent one more variance
\* after the dispatcher took the first.
ReturnedAfterLateOffer ==
    \E f \in BagToSet(find) : f.pc = "done" /\ f.sols # <<>>

\* C11  Mining shutdown liveness: once a worker has put a variance in the
\* solution channel of a call, under fair scheduling the dispatcher takes
\* it, its quit sends are all accepted and the call returns, so that in
\* the end the only calls that have not returned are calls whose solution
\* channel never held a variance; and as long as a call has not returned,
\* some goroutine can take a step.
ShutdownLiveness ==
    /\ <>[](\A f \in BagToSet(find) :
               f.pc = "done" \/ (f.pc = "loop" /\ f.sols = <<>>))
    /\ [](Unreturned = 0 \/ ENABLED FindNext)

\* The dispatcher has had one quit accepted and waits with the next for a
\* worker that is still in its chunk.
QuitWaitsForChunk ==
    \E f \in BagToSet(find) :
        /\ f.pc = "quit"
        /\ f.quits = 1
        /\ \E w \in BagToSet(f.workers) : w.pc = "scan"

\* ------------------------------------------------------ ledger properties
\* C1  Append atomicity: a call of Ledger.Append that returns an error, from
\* the successor check or from the verification of the block, leaves
\* ledger.Blocks and the address book as they were before the call.
AppendAtomicity ==
    [][(last'.op = "Append" /\ last'.err \in {"successor", "verify"})
         => (ledger'.Blocks = ledger.Blocks
             /\ trees'[ledger'.Addresses] = trees[ledger.Addresses])]_vars

\* An Append refused at its second transaction, after the first one was
\* applied, on a ledger that holds blocks.
AppendRefusedLate ==
    /\ last.op = "Append"
    /\ last.err = "verify"
    /\ last.verify.at >= 2
    /\ Size(ledger) >= 1

\* C2  Successor continuity: after any calls of Init, Append and ReadFrom,
\* every block after the first has the chain of the block before it, its
\* index plus one and its complexity plus one (in 64-bit arithmetic), a
\* timestamp that is not older, and its hash as previous hash.
SuccessorContinuity ==
    \A i \in 1..(Size(ledger) - 1) :
        /\ ledger.Blocks[i + 1].Chain = ledger.Blocks[i].Chain
        /\ ledger.Blocks[i + 1].Index = (ledger.Blocks[i].Index + 1) % U64
        /\ ledger.Blocks[i + 1].Complexity = (ledger.Blocks[i].Complexity + 1) % U64
        /\ ledger.Blocks[i + 1].Timestamp >= ledger.Blocks[i].Timestamp
        /\ ledger.Blocks[i + 1].PreviousHash = BlockHash(ledger.Blocks[i])

\* Two blocks, the second one newer than the first.
TwoBlocksLaterTime ==
    /\ Size(ledger) = 2
    /\ ledger.Blocks[2].Timestamp > ledger.Blocks[1].Timestamp

\* The address book that applying the transactions of the blocks in order
\* to a book gives.
RECURSIVE ReplayTxs(_, _, _)
ReplayTxs(data, i, tree) ==
    IF i > Len(data) THEN tree
    ELSE ReplayTxs(data, i + 1, Apply(data[i], tree).tree)

RECURSIVE Replay(_, _, _)
Replay(blocks, i, tree) ==
    IF i > Len(blocks) THEN tree
    ELSE Replay(blocks, i + 1, ReplayTxs(blocks[i].Data, 1, tree))

\* C3  The address book is the replay of the chain: after any calls of
\* Init, Append and ReadFrom the address book of the ledger is what
\* applying the transactions of ledger.Blocks in order to an empty book
\* gives.
AddressBookIsReplay == Book = Replay(ledger.Blocks, 1, NewAddressTree)

\* C4  Index invariant: the block at position i of the ledger, counted from
\* 0, has index i.
IndexInvariant ==
    \A i \in 1..Size(ledger) : ledger.Blocks[i].Index = i - 1

\* C5  Chain-id invariant: every block of the ledger has the chain of the
\* ledger.
ChainIdInvariant ==
    \A i \in 1..Size(ledger) : ledger.Blocks[i].Chain = ledger.Chain

\* C12  Ledger round-trip: reading what WriteTo wrote of the ledger into a
\* fresh ledger succeeds and gives the chain, the blocks and the address
\* book of the ledger.
LedgerRoundTrip ==
    LET read == LedgerReadFrom(NewLedger(0), trees, WriteTo(ledger))
    IN  /\ read.err = "ok"
        /\ read.l.Chain = ledger.Chain
        /\ read.l.Blocks = ledger.Blocks
        /\ read.heap[read.l.Addresses] = Book

\* The first n blocks that Block.SetBytesFrom reads from a stream.
RECURSIVE DecodeBlocks(_, _)
DecodeBlocks(r, n) ==
    IF n = 0 THEN <<>>
    ELSE <<SetBytesFrom(NewBlock, r).v>> \o DecodeBlocks(SetBytesFrom(NewBlock, r).rest, n - 1)

\* C15  ReadFrom failure leaves a verified prefix: a ReadFrom that fails
\* at a block of the stream returns an error, and the ledger then holds
\* the blocks of the stream before that one, which Append refuses, with
\* the address book that replaying them gives.
ReadFromPrefix ==
    (last.op = "ReadFrom" /\ last.err # "ok")
    => /\ last.err \in {"successor", "verify"}
       /\ ledger.Blocks = DecodeBlocks(Drop(last.r, 16), Size(ledger))
       /\ LedgerAppend(ledger, trees,
                        DecodeBlocks(Drop(last.r, 16), Size(ledger) + 1)[Size(ledger) + 1]).err
            # "ok"
       /\ Book = Replay(ledger.Blocks, 1, NewAddressTree)

\* Account transactions for the address of a key: the one NewAccount
\* makes, and one that carries the public key of the other key.
AccountTxs(chain) ==
    {NewAccount(chain, KeyA, 0, 1), NewAccount(chain, KeyB, 0, 1),
     [NewAccount(chain, KeyB, 0, 1) EXCEPT !.Data = PublicKeyBytes(KeyA)],
     [NewAccount(chain, KeyA, 0, 1) EXCEPT !.Data = PublicKeyBytes(KeyB)]}

\* AccountTxs, built once for every chain.
AccountTxTable == [c \in Chains |-> AccountTxs(c)] @@ <<>>

\* C26  No key rotation and no entry removal: no call of Append or Init,
\* whether it accepts its block or not, removes an entry of the address
\* book or changes the key stored in one; and on every address book the
\* ledger reaches, an Account transaction for an address that has an entry
\* is applied only if its data are the bytes of the stored key, and then
\* it leaves the book, and so every balance, as it was.
NoRotationNoRemoval ==
    /\ [][last'.op # "ReadFrom"
            => \A x \in Book :
                 \E y \in trees'[ledger'.Addresses] :
                    y.Address = x.Address /\ y.Account = x.Account]_vars
    /\ [](\A tx \in AccountTxTable[ledger.Chain] :
            LET applied == Apply(tx, Book)
            IN  (Has(Book, tx.Sender) /\ applied.res = "true")
                => /\ tx.Data = PublicKeyBytes(Get(Book, tx.Sender).Account)
                   /\ applied.tree = Book)

\* The ledger has taken a second block with an Account transaction for
\* an address that had its entry from the first block.
AccountOnExistingEntry ==
    /\ last.op = "Append"
    /\ last.err = "ok"
    /\ Size(ledger) = 2
    /\ \E j \in 1..Len(Last(ledger).Data) :
          /\ Last(ledger).Data[j].Type = TypeAccount
          /\ Has(Replay(<<ledger.Blocks[1]>>, 1, NewAddressTree),
                 Last(ledger).Data[j].Sender)

\* C24  Block shape: every block the ledger holds, after any sequence of
\* Init, Append and ReadFrom, has at least one transaction; its first
\* transaction is a Coinbase and every other one is an Account or a
\* Transfer.
BlockShape ==
    \A i \in 1..Size(ledger) :
        LET data == ledger.Blocks[i].Data
        IN  /\ Len(data) >= 1
            /\ data[1].Type = TypeCoinbase
            /\ \A j \in 2..Len(data) : data[j].Type \in {TypeAccount, TypeTransfer}

\* Append has taken a second block, one with a transaction behind its
\* coinbase.
TwoTransactionsStored ==
    /\ last.op = "Append"
    /\ last.err = "ok"
    /\ Size(ledger) = 2
    /\ Len(Last(ledger).Data) = 2

\* C23  Malformed input is reported as an error: ReadFrom of a stream that
\* is not what WriteTo wrote, but a cut of it or a copy with a changed
\* byte, returns an error; it neither returns nil nor panics.
MalformedInputReported ==
    [][(last'.op = "ReadFrom" /\ last'.r # WriteTo(ledger))
         => last'.err \notin {"ok", "panic"}]_vars

\* The sum of the funds of a tree, without wrap.
RECURSIVE TotalFunds(_)
TotalFunds(tree) ==
    IF tree = {} THEN 0
    ELSE LET x == CHOOSE y \in tree : TRUE
         IN  x.Funds + TotalFunds(tree \ {x})

\* The sum of required_quality * RewardBase over blocks i.. of a ledger.
RECURSIVE BaseRewards(_, _)
BaseRewards(blocks, i) ==
    IF i > Len(blocks) THEN 0
    ELSE HashQuality(blocks[i].Complexity) * RewardBase + BaseRewards(blocks, i + 1)

\* C28  Bounded issuance: a block that Verify accepts, in Append or in
\* Init, leaves a tree whose sum of funds exceeds the sum of the tree
\* before by at most the required quality of the block times RewardBase;
\* the tree ReadFrom builds from nothing holds at most that, summed over
\* the blocks it read.
BoundedIssuance ==
    [][/\ (last'.op \in {"Append", "Init"} /\ last'.err = "ok")
            => TotalFunds(trees'[ledger'.Addresses])
                 <= TotalFunds(Book)
                      + HashQuality(Last(ledger').Complexity) * RewardBase
       /\ (last'.op = "ReadFrom" /\ last'.err = "ok")
            => TotalFunds(trees'[ledger'.Addresses])
                 <= BaseRewards(ledger'.Blocks, 1)]_vars

\* Transfers move or burn funds: an applied Transfer lowers the sum of the
\* funds by its fee or more.
TransferNeverMints ==
    (call.op = "Apply" /\ call.res = "true" /\ call.tx.Type = TypeTransfer)
    => TotalFunds(book) + call.tx.Fee <= TotalFunds(call.before)

\* An Append has stored a second block, and the funds of the tree are
\* the base rewards of the two blocks, none of them 0.
IssuedInFull ==
    /\ last.op = "Append"
    /\ last.err = "ok"
    /\ Size(ledger) = 2
    /\ \A i \in 1..2 : HashQuality(ledger.Blocks[i].Complexity) > 0
    /\ TotalFunds(Book) = BaseRewards(ledger.Blocks, 1)

\* C6  Snapshot isolation of Block.Verify: a call that fails, at whatever
\* step, returns the tree it was given, and that tree has the entries and
\* funds it had before the call.
SnapshotIsolation ==
    last.verify.err \notin {"none", "ok"}
    => /\ last.verify.err # "panic"
       /\ last.verify.same
       /\ last.verify.kept

\* The frame part alone: a call that does not end with success, a panic
\* included, leaves the tree it was given as it was.
SnapshotKept ==
    last.verify.err \notin {"none", "ok"} => last.verify.kept

\* ------------------------------------------------ functions, directly
\* The blocks that are written and read back: the genesis blocks, one with
\* a signature from the second nonce, their successors without
\* transactions, and successors with a coinbase and a transfer.
CodecBlocks ==
    LET genesis == Range(GenesisTable) \cup {Genesis(0, GenesisComplexity, KeyA, 0, 2)}
        next == {NextBlock(g, 1) : g \in genesis}
    IN  genesis \cup next
        \cup {BlockAppend(BlockAppend(n, NewCoinbase(n.Chain, KeyA, RewardBase, 1, 1)),
                           NewTransfer(n.Chain, 2, 1, KeyA, KeyB, 1, 1)) : n \in next}

\* The transactions that are written and read back: what NewCoinbase,
\* NewAccount and NewTransfer make for the keys, times and nonces, the
\* empty transaction, and one with data of its own.
CodecTxs ==
    {NewTX, [NewTX EXCEPT !.Data = <<1, 2, 3>>]}
    \cup UNION {{NewCoinbase(c, k, RewardBase, t, n),
                  NewAccount(c, k, t, n),
                  NewTransfer(c, 2, 1, k, KeyB, t, n)} :
                    c \in Chains, k \in PrivateKeys, t \in Times, n \in Nonces}

\* Each behaviour is one call of one function: the result of such a call
\* does not depend on the calls before it.
EvalInit == LedgerAtRest /\ TxAtRest /\ FindAtRest /\ EvalAtRest

\* block.New().SetBytes(b.Bytes()) and block.New().SetBytesFrom(buffer)
DoBlockSetBytes ==
    /\ EvalAtRest
    /\ \E b \in CodecBlocks :
         eval' = [op |-> "Block.SetBytes", b |-> b,
                  out |-> SetBytes(NewBlock, BlockBytes(b)),
                  from |-> SetBytesFrom(NewBlock, BlockBytes(b)).v]
    /\ UNCHANGED <<ledgerVars, txVars, findVars>>

\* transaction.New().SetBytes(tx.Bytes())
DoTxSetBytes ==
    /\ EvalAtRest
    /\ \E tx \in CodecTxs :
         eval' = [op |-> "TX.SetBytes", tx |-> tx,
                  out |-> TxSetBytes(NewTX, TxBytes(tx))]
    /\ UNCHANGED <<ledgerVars, txVars, findVars>>

\* A hash of 32 bytes with n leading zero bits, the bits after the first
\* one all 0 or all 1.
HashWith(n, fill) ==
    [j \in 1..HashSize |->
        IF j < n \div 8 + 1 THEN 0
        ELSE IF j = n \div 8 + 1 THEN 2 ^ (7 - (n % 8)) + (fill % (2 ^ (7 - (n % 8))))
        ELSE fill]

\* The hashes handed to the loop of Compliant: few and many leading zero
\* bits, around the byte borders, and the hashes of blocks.
Hashes ==
    {HashWith(n, fill) : n \in (0..17) \cup (247..255), fill \in {0, 255}}
    \cup {Zeros(HashSize)}
    \cup {BlockHash(b) : b \in Range(GenesisTable)}

\* Complexities with required qualities 0, 1, 2, 8, 9, 16, 17, 256 and 257.
QualityComplexities ==
    {0, 15, 16, 63, 64, 16 * 8 * 8, 16 * 9 * 9 - 1, 16 * 9 * 9, 16 * 16 * 16,
     16 * 17 * 17, 16 * 256 * 256, 16 * 257 * 257}

\* The required qualities of the complexities.
QualityTable == [c \in QualityComplexities |-> HashQuality(c)] @@ <<>>

\* The body of Block.Compliant on a hash, at one complexity and at one
\* that is larger by one or more quality steps: requiredQuality and the
\* result of the loop.
DoCompliant ==
    /\ EvalAtRest
    /\ \E hash \in Hashes, c1 \in QualityComplexities,
          c2 \in {16, 16 * 9 * 9, 16 * 17 * 17, 16 * 257 * 257} :
         eval' = [op |-> "Compliant", hash |-> hash, c1 |-> c1, c2 |-> c2,
                  q1 |-> QualityTable[c1], q2 |-> QualityTable[c2],
                  at1 |-> CompliantFrom(hash, 1, QualityTable[c1]),
                  at2 |-> CompliantFrom(hash, 1, QualityTable[c2])]
    /\ UNCHANGED <<ledgerVars, txVars, findVars>>

\* Blocks without transactions: block.New(), and Next(genesis) as it is
\* made (Variance 0) and with the next variance.
EmptyBlocks ==
    {NewBlock}
    \cup {[NextBlock(g, t) EXCEPT !.Variance = v] :
             g \in Range(GenesisTable), t \in Times, v \in 0..1}

\* b.Verify(fallback) of a block without transactions, fallback the
\* address book of a ledger that holds a genesis block.
DoVerifyEmpty ==
    /\ EvalAtRest
    /\ \E b \in EmptyBlocks, g \in Range(GenesisTable) :
         LET heap == <<Replay(<<g>>, 1, NewAddressTree)>>
             v == Verify(b, heap, 1)
         IN  eval' = [op |-> "Verify", b |-> b, compliant |-> Compliant(b),
                      err |-> v.err, same |-> v.ptr = 1,
                      kept |-> v.heap[1] = heap[1]]
    /\ UNCHANGED <<ledgerVars, txVars, findVars>>

\* The outcome of a.Verify(hash, signature): "panic" where the slice
\* signature[:32] is out of range.
Verifies(a, hash, signature) ==
    IF VerifyPanics(signature) THEN "panic"
    ELSE IF AccountVerify(a, hash, signature) THEN "true"
    ELSE "false"

\* sign := p.Sign(h), then p.Verify(h, sign) and
\* NewPublic(p.PublicKeyBytes()).Verify(h, sign), as TestPublicPrivate does.
DoSign ==
    /\ EvalAtRest
    /\ \E p \in PrivateKeys, n \in Nonces,
          h \in {Zeros(HashSize), HashWith(3, 255), HashWith(9, 0)} :
         LET sign == Sign(p, h, n)
         IN  eval' = [op |-> "Sign", p |-> p, h |-> h, sign |-> sign,
                      private |-> Verifies(p, h, sign),
                      public |-> IF NewPublicPanics(PublicKeyBytes(p)) THEN "panic"
                                 ELSE Verifies(NewPublic(PublicKeyBytes(p)), h, sign)]
    /\ UNCHANGED <<ledgerVars, txVars, findVars>>

\* The keys that are written and read back: the generated ones, and keys
\* with a leading zero byte in Y, in D, and in X with a zero byte behind
\* the first of Y.
CodecKeys ==
    PrivateKeys
    \cup {[KeyA EXCEPT !.Y = Tail(@)], [KeyA EXCEPT !.D = Tail(@)],
           [KeyShort EXCEPT !.Y[2] = 0]}

\* acc2 := NewPublic(acc.PublicKeyBytes()) and
\* acc3 := NewPrivateFromBytes(acc.Bytes()), as TestPublicPrivate does.
DoKeyBytes ==
    /\ EvalAtRest
    /\ \E acc \in CodecKeys :
         LET pub == PublicKeyBytes(acc)
             priv == PrivateBytes(acc)
             none == [X |-> <<>>, Y |-> <<>>, D |-> <<>>]
         IN  eval' = [op |-> "KeyBytes", acc |-> acc,
                      panics |-> NewPublicPanics(pub) \/ NewPrivateFromBytesPanics(priv),
                      acc2 |-> IF NewPublicPanics(pub) THEN none
                               ELSE NewPublic(pub) @@ [D |-> <<>>],
                      acc3 |-> IF NewPrivateFromBytesPanics(priv) THEN none
                               ELSE NewPrivateFromBytes(priv)]
    /\ UNCHANGED <<ledgerVars, txVars, findVars>>

\* The byte strings handed to Verify as signatures of hash by p: none,
\* cuts of p.Sign(hash), the signature itself, with a byte behind it, with
\* a zero byte before s, and 64 zero bytes.
Signatures(p, hash) ==
    LET sign == Sign(p, hash, 1)
    IN  {<<>>, SubSeq(sign, 1, 31), SubSeq(sign, 1, 32), SubSeq(sign, 1, 63),
         sign, sign \o <<0>>,
         SubSeq(sign, 1, 32) \o <<0>> \o SubSeq(sign, 33, Len(sign)),
         Zeros(64)}

\* p.Verify(hash, signature) and NewPublic(p.PublicKeyBytes()).Verify(hash,
\* signature) for the two keys with coordinates of 32 bytes.
DoVerifySignature ==
    /\ EvalAtRest
    /\ \E p \in {KeyA, KeyB}, hash \in {Zeros(HashSize), HashWith(3, 255)} :
         \E signature \in Signatures(p, hash) :
            eval' = [op |-> "Account.Verify", p |-> p, hash |-> hash,
                     signature |-> signature,
                     private |-> Verifies(p, hash, signature),
                     public |-> Verifies(NewPublic(PublicKeyBytes(p)), hash, signature)]
    /\ UNCHANGED <<ledgerVars, txVars, findVars>>

\* The chunk the dispatcher of Find sends in round k of its loop:
\* [2]uint64{varianceChunk, varianceChunk + VarianceChunkSize}, with
\* varianceChunk += VarianceChunkSize after every send.
DispatchedChunk(k) ==
    <<(k * VarianceChunkSize) % U64,
      (((k * VarianceChunkSize) % U64) + VarianceChunkSize) % U64>>

\* The variances that for v := c[0]; v < c[1]; v++ of runVarianceWorker
\* hands to Compliant.
Probed(c) == {v \in 0..(U64 - 1) : c[1] <= v /\ v < c[2]}

\* The rounds after which varianceChunk is 0 again.
Rounds == U64 \div VarianceChunkSize

\* The rounds that are looked at: the first two and the last two before
\* varianceChunk wraps.
SearchRounds == {0, 1, Rounds - 2, Rounds - 1}

\* The variances probed in the rounds of one pass over the variance space.
Searched == UNION {Probed(DispatchedChunk(k)) : k \in 0..(Rounds - 1)}

\* Blocks handed to Find: the genesis blocks, and a block of required
\* quality 11 whose only compliant variance is U64 - 2.
SearchInputs ==
    FindInputs
    \cup {[NewBlock EXCEPT !.Chain = 1, !.Complexity = 1944, !.Timestamp = 4]}

\* Round k of the dispatcher of Find(init) and the worker that takes its
\* chunk: the chunk, the variances probed and the ones sent to sols.
DoSearch ==
    /\ EvalAtRest
    /\ \E init \in SearchInputs, k \in SearchRounds :
         LET c == DispatchedChunk(k)
         IN  eval' = [op |-> "Search", init |-> init, k |-> k, c |-> c,
                      probed |-> Probed(c),
                      sent |-> {v \in Probed(c) : Publishes(WithVariance(init, v))}]
    /\ UNCHANGED <<ledgerVars, txVars, findVars>>

EvalNext ==
    \/ DoVerifySignature
    \/ DoBlockSetBytes
    \/ DoTxSetBytes
    \/ DoCompliant
    \/ DoVerifyEmpty
    \/ DoSign
    \/ DoKeyBytes
    \/ DoSearch

EvalSpec == EvalInit /\ [][EvalNext]_vars

\* C13  Block round-trip: New().SetBytes(b.Bytes()) and
\* New().SetBytesFrom(a reader of b.Bytes()) both give a block with the
\* header fields and the transactions of b.
BlockRoundTrip ==
    eval.op = "Block.SetBytes" => (eval.out = eval.b /\ eval.from = eval.b)

\* C14  Transaction round-trip: New().SetBytes(t.Bytes()) is t in every
\* field, for a transaction with a sender and a recipient of 32 bytes and
\* a proof of 64, and for what NewCoinbase, NewAccount and NewTransfer make.
TxRoundTrip ==
    eval.op = "TX.SetBytes" => eval.out = eval.tx

\* The number of leading zero bits of a hash, bit by bit.
LeadingZeroBits(hash) ==
    LET Bit(k) == (hash[(k - 1) \div 8 + 1] \div (2 ^ (7 - ((k - 1) % 8)))) % 2
    IN  CHOOSE n \in 0..(8 * Len(hash)) :
          /\ \A k \in 1..n : Bit(k) = 0
          /\ n < 8 * Len(hash) => Bit(n + 1) = 1

\* C16  The compliance predicate equals its reference: on a 32-byte hash
\* and the required quality of a complexity, the loop of Compliant gives
\* true exactly when the hash has at least that many leading zero bits,
\* and so false for every hash when the quality is above 256.
CompliantIsLeadingZeros ==
    eval.op = "Compliant"
    => /\ eval.at1 = (LeadingZeroBits(eval.hash) >= eval.q1)
       /\ eval.q1 > 256 => ~eval.at1

\* The loop said yes after it went past zero bytes, and no for every hash
\* at quality 257.
CompliantPastFirstByte ==
    /\ eval.op = "Compliant"
    /\ eval.q1 = 17
    /\ eval.at1
    /\ eval.hash # Zeros(HashSize)
    /\ eval.q2 = 257
    /\ ~eval.at2

EmptyBlockRejected ==
    (eval.op = "Verify" /\ Len(eval.b.Data) = 0)
    => /\ eval.err = "empty"
       /\ eval.same
       /\ eval.kept

\* C18  Verify of a block with zero transactions returns the snapshot it
\* was given, unchanged, with the error "Block is empty" when the block is
\* compliant and with "Block is not compliant" when it is not: Next(prev)
\* has Variance 0 and is compliant only when its hash happens to be.
EmptyOrNotCompliant ==
    (eval.op = "Verify" /\ Len(eval.b.Data) = 0)
    => /\ eval.err = (IF eval.compliant THEN "empty" ELSE "compliant")
       /\ eval.same
       /\ eval.kept

\* Next(genesis) as made, compliant, is refused as empty against a book
\* that holds the creator of the genesis block.
EmptyNextRefused ==
    /\ eval.op = "Verify"
    /\ eval.b.Index = 1
    /\ eval.b.Variance = 0
    /\ eval.b.Data = <<>>
    /\ eval.compliant
    /\ eval.err = "empty"

\* Next(genesis) as made, refused as not compliant.
EmptyNextNotCompliant ==
    /\ eval.op = "Verify"
    /\ eval.b.Index = 1
    /\ eval.b.Variance = 0
    /\ eval.b.Data = <<>>
    /\ eval.err = "compliant"

\* C20  Signature consistency: for every private account p and hash h,
\* p.Verify(h, p.Sign(h)) is true and
\* NewPublic(p.PublicKeyBytes()).Verify(h, p.Sign(h)) is true, whatever
\* the lengths of the encodings of r and s.
SignatureConsistency ==
    eval.op = "Sign" => (eval.private = "true" /\ eval.public = "true")

\* The same for keys and signatures whose X, Y, r and s all take 32 bytes.
SignatureConsistencyPadded ==
    (/\ eval.op = "Sign"
     /\ Len(eval.p.X) = 32
     /\ Len(eval.p.Y) = 32
     /\ Len(eval.sign) = 64)
    => (eval.private = "true" /\ eval.public = "true")

\* C21  Address determinism: for every private account p,
\* NewPublic(p.PublicKeyBytes()) has the PublicKeyBytes and the Address of
\* p, and NewPrivateFromBytes(p.Bytes()) has the Bytes and the
\* PublicKeyBytes of p, whatever the lengths of X, Y and D.
AddressDeterminism ==
    eval.op = "KeyBytes"
    => /\ ~eval.panics
       /\ PublicKeyBytes(eval.acc2) = PublicKeyBytes(eval.acc)
       /\ Address(eval.acc2) = Address(eval.acc)
       /\ PrivateBytes(eval.acc3) = PrivateBytes(eval.acc)
       /\ PublicKeyBytes(eval.acc3) = PublicKeyBytes(eval.acc)

\* The same for keys whose X and Y take 32 bytes.
AddressDeterminismPadded ==
    (eval.op = "KeyBytes" /\ Len(eval.acc.X) = 32 /\ Len(eval.acc.Y) = 32)
    => /\ ~eval.panics
       /\ eval.acc2 = [eval.acc EXCEPT !.D = <<>>]
       /\ eval.acc3 = eval.acc

\* C22  Verify never throws: for every hash and every byte string given
\* as signature, Public.Verify and Private.Verify return a boolean, and
\* they return false for a signature that is not 64 bytes long.
VerifyNeverThrows ==
    eval.op = "Account.Verify"
    => /\ eval.private \in {"true", "false"}
       /\ eval.public \in {"true", "false"}
       /\ Len(eval.signature) # 64 => (eval.private = "false" /\ eval.public = "false")

\* The part that holds: a signature of 32 bytes or more gets an answer.
VerifyReturnsFrom32 ==
    (eval.op = "Account.Verify" /\ Len(eval.signature) >= 32)
    => (eval.private \in {"true", "false"} /\ eval.public = eval.private)

\* C27  Search covers the whole variance space: the chunk of round k of
\* the dispatcher is [k * VarianceChunkSize, (k + 1) * VarianceChunkSize),
\* the worker that takes it probes every variance of it, and when some
\* variance makes the block compliant, a pass over the rounds probes a
\* variance that does, which Find needs to return.
SearchCoversSpace ==
    eval.op = "Search"
    => /\ eval.probed = {v \in 0..(U64 - 1) : v \div VarianceChunkSize = eval.k}
       /\ (\A v \in Searched : ~Compliant(WithVariance(eval.init, v)))
            => \A v \in (0..(U64 - 1)) \ Searched :
                  ~Compliant(WithVariance(eval.init, v))

\* What holds: every chunk below the last one is probed in full, and the
\* last one, whose upper bound wraps to 0, is not probed at all.
SearchCoversBelowTop ==
    eval.op = "Search"
    => /\ eval.k < Rounds - 1
           => eval.probed = {v \in 0..(U64 - 1) : v \div VarianceChunkSize = eval.k}
       /\ eval.k = Rounds - 1 => (eval.c[2] = 0 /\ eval.probed = {})
       /\ Searched = 0..(U64 - VarianceChunkSize - 1)

\* The last round of a pass on a block whose compliant variances all lie
\* in the last chunk.
TopChunkOnly ==
    /\ eval.op = "Search"
    /\ eval.k = Rounds - 1
    /\ Compliant(WithVariance(eval.init, U64 - 2))
    /\ \A v \in Searched : ~Compliant(WithVariance(eval.init, v))

====
